---- MODULE Spec2Model ----
(***************************************************************************)
(* A model of the market-watch pipeline of WIZFUT: the alert cooldown      *)
(* tracker (storage/state.py), the rolling price history store             *)
(* (storage/price_history.py), the three detectors (detectors/*.py), the   *)
(* numeric normaliser and the poll loop of the orchestrator (main.py),     *)
(* and the cooldown tracker shared by two threads.                         *)
(*                                                                         *)
(* Time is the wall clock time.time(), in whole seconds.  Real numbers     *)
(* (averages, ratios, thresholds) are exact rationals [n, d] with d > 0;   *)
(* Python's binary floating point rounding is not modelled.                *)
(***************************************************************************)
EXTENDS Integers, Sequences, FiniteSets, TLC

VARIABLES
    now,            \* time.time(): the wall clock, in seconds
    cooldown,       \* run(): cooldown = cfg.cooldown_minutes * 60
    last_alerts,    \* AlertState.last_alerts: (player_id, detector) -> time
    alert,          \* the last can_alert call: its key, time and return value
    fired,          \* history: per key, the times at which can_alert returned True, and
                    \* whether a check has been suppressed since the last of them
    quote,          \* the price the market currently lists for an item
    late,           \* how many snapshots so far carried a past updated_at
    data,           \* PriceHistory._data: player_id -> sequence of <<ts, price>>
    stats,          \* the value returned by the last get_stats call
    hist,           \* the last PriceHistory call: operation, player_id, time
    row,            \* the snapshot record handed to the detectors
    thresholds,     \* UnderpricedConfig / FakeBinConfig / SpikeConfig
    info,           \* per detector: the value it returned for row
    text,           \* the raw value handed to main._to_float
    parsed,         \* the value main._to_float returned for text
    pc,             \* run(): the statement the poll loop is at
    fetched,        \* run(): rows, the list fetch_market returned in this cycle
    idx,            \* run(): the position of `row` in rows
    det,            \* run(): the position of the detector loop in its three pairs
    checked,        \* history: per detector, what can_alert returned for this row
    outbox,         \* history: per key, the last call of the notifier and its outcome
    exit_by,        \* history: the exception that ended the loop, and where it struck
    failure,        \* history: the step of this cycle at which an Exception was raised
    workers         \* per worker thread: its position inside can_alert and its locals

vars == <<now, cooldown, last_alerts, alert, fired, quote, late, data, stats, hist,
          row, thresholds, info, text, parsed,
          pc, fetched, idx, det, checked, outbox, exit_by, failure, workers>>

cooldownVars == <<cooldown, last_alerts, alert, fired>>
historyVars == <<quote, late, data, stats, hist>>
detectorVars == <<row, thresholds, info>>
normaliserVars == <<text, parsed>>
runVars == <<pc, fetched, idx, det, checked, outbox, exit_by, failure>>
workerVars == <<workers>>

(***************************************************************************)
(* Bounds of the model.                                                    *)
(***************************************************************************)
StartTime == 1000           \* the clock's value when the process starts
MaxTicks == 2               \* the clock advances at most this many minutes
MaxCooldownMinutes == 2     \* cooldown_minutes ranges over 0..MaxCooldownMinutes

(***************************************************************************)
(* Program constants.                                                      *)
(***************************************************************************)
SecondsPerMinute == 60      \* run: cooldown = cfg.cooldown_minutes * 60

Items == {"p1", "p2"}
Detectors == {"UNDERPRICED", "FAKE_BIN", "SPIKE"}

None == [t |-> "none"]

Max(a, b) == IF a >= b THEN a ELSE b

\* dict[key] = value
Put(f, k, v) == [x \in (DOMAIN f) \cup {k} |-> IF x = k THEN v ELSE f[x]]

EmptyDict == [x \in {} |-> 0]

(***************************************************************************)
(* The wall clock.  Between two reads of time.time() the clock may have    *)
(* advanced; cooldown and window are configured in minutes, and the model  *)
(* advances the clock a minute at a time.                                  *)
(***************************************************************************)
EndTime == StartTime + MaxTicks * SecondsPerMinute

Tick ==
    /\ now + SecondsPerMinute <= EndTime
    /\ now' = now + SecondsPerMinute

(***************************************************************************)
(* storage/state.py: AlertState                                            *)
(***************************************************************************)
\* can_alert with `if ts` dropped: a plausible slip that keeps only the first firing
can_alert_never_again(las, player_id, detector, cooldown_seconds, t) ==
    LET key == <<player_id, detector>>
    IN  IF key \in DOMAIN las
        THEN [ret |-> FALSE, last_alerts |-> las]
        ELSE [ret |-> TRUE, last_alerts |-> Put(las, key, t)]

\* can_alert recording the time of every check, suppressed ones included
can_alert_touch(las, player_id, detector, cooldown_seconds, t) ==
    LET key == <<player_id, detector>>
        ts_set == key \in DOMAIN las
    IN  IF ts_set /\ las[key] # 0 /\ (t - las[key]) < cooldown_seconds
        THEN [ret |-> FALSE, last_alerts |-> Put(las, key, t)]
        ELSE [ret |-> TRUE, last_alerts |-> Put(las, key, t)]

\* AlertState.can_alert at clock value t: the returned bool and the new dict.
\* `if ts and ...`: ts is None (no entry) or 0.0 is falsy.
can_alert(las, player_id, detector, cooldown_seconds, t) ==
    LET key == <<player_id, detector>>
        ts_set == key \in DOMAIN las
    IN  IF ts_set /\ las[key] # 0 /\ (t - las[key]) < cooldown_seconds
        THEN [ret |-> FALSE, last_alerts |-> las]
        ELSE [ret |-> TRUE, last_alerts |-> Put(las, key, t)]

\* The keys the stand-alone tracker is exercised on.
TrackedKeys == {<<"p1", "UNDERPRICED">>, <<"p1", "SPIKE">>, <<"p2", "UNDERPRICED">>}

NoAlert == [op |-> "none"]

CooldownIdle ==
    /\ cooldown = 0
    /\ last_alerts = EmptyDict
    /\ alert = NoAlert
    /\ fired = [k \in TrackedKeys |-> [permitted |-> {}, suppressed |-> FALSE]]

CooldownInit ==
    /\ cooldown \in {m * SecondsPerMinute : m \in 0..MaxCooldownMinutes}
    /\ last_alerts = EmptyDict
    /\ alert = NoAlert
    /\ fired = [k \in TrackedKeys |-> [permitted |-> {}, suppressed |-> FALSE]]

\* One call state.can_alert(pid, det_name, cooldown)
CanAlert(key) ==
    LET r == can_alert(last_alerts, key[1], key[2], cooldown, now)
    IN  /\ last_alerts' = r.last_alerts
        /\ alert' = [op |-> "can_alert", key |-> key, at |-> now, ret |-> r.ret,
                     after_suppressed |-> fired[key].suppressed]
        /\ fired' = [fired EXCEPT ![key] =
                        IF r.ret
                        THEN [permitted |-> @.permitted \cup {now}, suppressed |-> FALSE]
                        ELSE [permitted |-> @.permitted, suppressed |-> TRUE]]
        /\ UNCHANGED cooldown

CooldownTick ==
    /\ Tick
    /\ alert' = NoAlert
    /\ UNCHANGED <<cooldown, last_alerts, fired>>

(***************************************************************************)
(* storage/price_history.py: PriceHistory                                  *)
(***************************************************************************)
CfgWindowMinutes == 1       \* the configured history window_minutes
CfgMaxPoints == 3           \* the configured history max_points
MaxLag == 1                 \* a snapshot's updated_at lies at most this many minutes back
MaxLate == 1                \* at most this many snapshots carry a past updated_at

MinWindowSeconds == 60      \* __post_init__: max(60, int(window_minutes) * 60)
MinMaxPoints == 10          \* __post_init__: max(10, int(max_points))

\* __post_init__
window_seconds == Max(MinWindowSeconds, CfgWindowMinutes * SecondsPerMinute)
max_points == Max(MinMaxPoints, CfgMaxPoints)

Prices == {100, 200}

\* updated_at values: a number, a datetime (naive or with a UTC offset), an ISO
\* string (with or without offset, or with a trailing Z), an unparsable or empty
\* string, or None.  wall is the wall-clock reading, in seconds, of the
\* date and time written; offset the UTC offset of its zone.
UpdatedAtValues(ts) ==
    {None, [t |-> "str", iso |-> FALSE, empty |-> TRUE], [t |-> "str", iso |-> FALSE, empty |-> FALSE]}
    \cup {[t |-> "num", v |-> ts]}
    \cup {[t |-> k, naive |-> TRUE, wall |-> ts, offset |-> 0] : k \in {"datetime", "iso"}}
    \cup {[t |-> k, naive |-> FALSE, wall |-> ts + o, offset |-> o] :
            k \in {"datetime", "iso"}, o \in {0, 3600}}

\* The updated_at values that denote the instant ts
Denoting(ts) == {u \in UpdatedAtValues(ts) : u.t \in {"num", "datetime", "iso"}}

\* PriceHistory._normalise_timestamp at clock value t
normalise_timestamp(value, t) ==
    CASE value.t = "num" -> value.v
      [] value.t \in {"datetime", "iso"} ->
            IF value.naive THEN value.wall ELSE value.wall - value.offset
      [] OTHER -> t

\* _trim's first loop: while series and series[0][0] < cutoff: series.popleft()
RECURSIVE trim_age(_, _)
trim_age(series, cutoff) ==
    IF series # <<>> /\ series[1][1] < cutoff
    THEN trim_age(Tail(series), cutoff)
    ELSE series

\* _trim's second loop: while len(series) > self.max_points: series.popleft()
RECURSIVE trim_count(_, _)
trim_count(series, cap) ==
    IF Len(series) > cap THEN trim_count(Tail(series), cap) ELSE series

\* _trim without the count cap
trim_no_cap(series, t) == trim_age(series, t - window_seconds)

\* _trim with `if` for `while` in the age loop: at most one sample leaves per call
trim_one_step(series, t) ==
    trim_count(IF series # <<>> /\ series[1][1] < t - window_seconds
               THEN Tail(series) ELSE series, max_points)

\* PriceHistory._trim
trim(series, t) == trim_count(trim_age(series, t - window_seconds), max_points)

\* PriceHistory.add at clock value t: the new _data
add(d, player_id, price, updated_at, t) ==
    LET ts == normalise_timestamp(updated_at, t)
        series == IF player_id \in DOMAIN d THEN d[player_id] ELSE <<>>
    IN  Put(d, player_id, trim(Append(series, <<ts, price>>), ts))

RECURSIVE Sum(_)
Sum(s) == IF s = <<>> THEN 0 ELSE Head(s) + Sum(Tail(s))

\* math.sqrt(r), kept symbolic: the root of the rational r
Sqrt(r) == [sqrt_of |-> r]

\* The aggregation of get_stats over a non-empty series
PriceStats(series) ==
    LET prices == [i \in 1..Len(series) |-> series[i][2]]
        count == Len(prices)
        total == Sum(prices)
        squares == Sum([i \in 1..count |-> prices[i] * prices[i]])
        \* sum((price - avg) ** 2) / count, with avg = total / count
        variance == [n |-> count * squares - total * total, d |-> count * count]
    IN  [t |-> "stats",
         average |-> [n |-> total, d |-> count],
         stddev |-> IF count = 1 THEN Sqrt([n |-> 0, d |-> 1]) ELSE Sqrt(variance),
         count |-> count]

\* PriceHistory.get_stats at clock value t: the returned value and the new _data
get_stats(d, player_id, t) ==
    IF player_id \notin DOMAIN d \/ d[player_id] = <<>>
    THEN [ret |-> None, data |-> d]
    ELSE LET series == trim(d[player_id], t)
         IN  [ret |-> IF series = <<>> THEN None ELSE PriceStats(series),
              data |-> Put(d, player_id, series)]

NoCall == [op |-> "none"]
NoStats == [t |-> "no call"]

HistoryIdle ==
    /\ quote = 100
    /\ late = 0
    /\ data = EmptyDict
    /\ stats = NoStats
    /\ hist = NoCall

HistoryInit ==
    /\ quote \in Prices
    /\ late = 0
    /\ data = EmptyDict
    /\ stats = NoStats
    /\ hist = NoCall

\* history.add(pid, price_value, row.get("updated_at"))
Add(player_id, price, updated_at) ==
    /\ data' = add(data, player_id, price, updated_at, now)
    /\ stats' = NoStats
    /\ hist' = [op |-> "add", item |-> player_id, at |-> now,
                \* whether the count cap evicted a sample in this call
                capped |-> LET series == IF player_id \in DOMAIN data
                                         THEN data[player_id] ELSE <<>>
                               ts == normalise_timestamp(updated_at, now)
                           IN  Len(trim_age(Append(series, <<ts, price>>),
                                            ts - window_seconds)) > max_points]

\* A snapshot whose updated_at is the current time, or cannot be resolved
AddCurrent(player_id) ==
    /\ \E u \in UpdatedAtValues(now) : Add(player_id, quote, u)
    /\ UNCHANGED <<quote, late>>

\* A snapshot whose updated_at lies in the past ("5 minutes ago")
AddLate(player_id) ==
    /\ late < MaxLate
    /\ late' = late + 1
    /\ \E lag \in 1..MaxLag :
         \E u \in Denoting(now - lag * SecondsPerMinute) : Add(player_id, quote, u)
    /\ UNCHANGED quote

\* history.get_stats(pid)
GetStats(player_id) ==
    LET r == get_stats(data, player_id, now)
    IN  /\ data' = r.data
        /\ stats' = r.ret
        /\ hist' = [op |-> "get_stats", item |-> player_id, at |-> now,
                    \* whether the previous call was this same call, at this instant
                    repeat |-> hist.op = "get_stats" /\ hist.item = player_id
                               /\ hist.at = now]
        /\ UNCHANGED <<quote, late>>

\* Time passes; the listed price may rise
HistoryTick ==
    /\ Tick
    /\ \E q \in Prices : q >= quote /\ quote' = q
    /\ stats' = NoStats
    /\ hist' = NoCall
    /\ UNCHANGED <<data, late>>

DetectorIdle == row = None /\ thresholds = None /\ info = None
NormaliserIdle == text = None /\ parsed = None

\* The poll loop has not been entered
RunIdle ==
    /\ pc = "idle"
    /\ fetched = <<>>
    /\ idx = 0
    /\ det = 0
    /\ checked = None
    /\ outbox = EmptyDict
    /\ exit_by = None
    /\ failure = None

\* No worker thread exists
WorkersIdle == workers = None

(***************************************************************************)
(* The cooldown tracker on its own: any sequence of can_alert calls, with  *)
(* the clock advancing between them.                                       *)
(***************************************************************************)
InitCooldown ==
    /\ now = StartTime
    /\ CooldownInit
    /\ HistoryIdle /\ DetectorIdle /\ NormaliserIdle /\ RunIdle /\ WorkersIdle

NextCooldown ==
    \/ CooldownTick /\ UNCHANGED <<historyVars, detectorVars, normaliserVars, runVars, workerVars>>
    \/ \E key \in TrackedKeys :
         CanAlert(key)
         /\ UNCHANGED <<now, historyVars, detectorVars, normaliserVars, runVars, workerVars>>

SpecCooldown == InitCooldown /\ [][NextCooldown]_vars

(***************************************************************************)
(* The price history store on its own: any sequence of add and get_stats   *)
(* calls, with the clock advancing between them.                           *)
(***************************************************************************)
HistoryItems == {"p1"}

InitHistory ==
    /\ now = StartTime
    /\ HistoryInit
    /\ CooldownIdle /\ DetectorIdle /\ NormaliserIdle /\ RunIdle /\ WorkersIdle

NextHistory ==
    \/ HistoryTick /\ UNCHANGED <<cooldownVars, detectorVars, normaliserVars, runVars, workerVars>>
    \/ \E p \in HistoryItems :
         AddCurrent(p)
         /\ UNCHANGED <<now, cooldownVars, detectorVars, normaliserVars, runVars, workerVars>>
    \/ \E p \in HistoryItems :
         AddLate(p)
         /\ UNCHANGED <<now, cooldownVars, detectorVars, normaliserVars, runVars, workerVars>>
    \/ \E p \in HistoryItems :
         GetStats(p)
         /\ UNCHANGED <<now, cooldownVars, detectorVars, normaliserVars, runVars, workerVars>>

SpecHistory == InitHistory /\ [][NextHistory]_vars

(***************************************************************************)
(* Claims about the cooldown tracker (SpecCooldown).                       *)
(***************************************************************************)
SetMax(S) == CHOOSE x \in S : \A y \in S : y <= x

\* C1: a can_alert call made at time now returns true exactly when no firing
\* time is recorded for its key or now - recorded time >= cooldownSeconds, and
\* when it returns true the recorded time for the key becomes now; so the first
\* check of a fresh key returns true and a check inside the cooldown returns false.
C1_CanAlertContract ==
    [][alert'.op = "can_alert" =>
          LET k == alert'.key
              fresh == k \notin DOMAIN last_alerts
          IN  /\ alert'.ret = (fresh \/ (now - last_alerts[k]) >= cooldown)
              /\ fresh => alert'.ret
              /\ alert'.ret => (k \in DOMAIN last_alerts' /\ last_alerts'[k] = now)]_vars

\* C1 witness: a check inside a running cooldown was made and returned false
C1_Witness ==
    /\ alert.op = "can_alert"
    /\ ~alert.ret
    /\ cooldown > 0
    /\ alert.key \in DOMAIN last_alerts

\* C2: a call that returns false leaves every recorded time unchanged; a call
\* returns true exactly when its key was never permitted or the time since the
\* last call that returned true for the key is >= cooldownSeconds, however many
\* suppressed checks came in between; and any two calls that returned true for
\* one key are at least cooldownSeconds apart.
C2_CooldownFromLastPermitted ==
    /\ [][alert'.op = "can_alert" =>
            LET k == alert'.key
                permitted == fired[k].permitted
            IN  /\ ~alert'.ret => last_alerts' = last_alerts
                /\ alert'.ret = (permitted = {} \/ now - SetMax(permitted) >= cooldown)]_vars
    /\ [](\A k \in TrackedKeys : \A t1, t2 \in fired[k].permitted :
              t1 < t2 => t2 - t1 >= cooldown)

\* C2 witness: a key was permitted, then checked and suppressed, then permitted
\* again once the cooldown had run out
C2_Witness ==
    /\ alert.op = "can_alert"
    /\ alert.ret
    /\ alert.after_suppressed
    /\ cooldown > 0
    /\ Cardinality(fired[alert.key].permitted) >= 2

(***************************************************************************)
(* Claims about the price history store (SpecHistory).                     *)
(***************************************************************************)
\* C3: in every state, whatever add and get_stats calls came before and whatever
\* their timestamps, every item's window holds at most history_max_points
\* samples, and that cap is at least 10.
C3_CountWithinCap ==
    /\ max_points >= MinMaxPoints
    /\ \A p \in DOMAIN data : Len(data[p]) <= max_points

\* C3 witness: an add found the window full and the count cap evicted a sample
C3_Witness ==
    /\ hist.op = "add"
    /\ hist.capped
    /\ Len(data[hist.item]) = max_points

InHorizon(series, t) == SelectSeq(series, LAMBDA s : t - s[1] <= window_seconds)

\* C4: once get_stats(item) has been called at time now, no sample retained for
\* the item is older than the window horizon, and the value returned aggregates
\* exactly the samples within the horizon (no value when there are none).
C4_NoStaleSampleAfterGetStats ==
    hist.op = "get_stats" =>
        LET series == IF hist.item \in DOMAIN data THEN data[hist.item] ELSE <<>>
        IN  /\ \A i \in 1..Len(series) : now - series[i][1] <= window_seconds
            /\ stats = IF InHorizon(series, now) = <<>> THEN None
                       ELSE PriceStats(InHorizon(series, now))

\* C5: every item's window holds its samples in non-decreasing timestamp order.
C5_SamplesInTimeOrder ==
    \A p \in DOMAIN data :
        \A i \in 1..(Len(data[p]) - 1) : data[p][i][1] <= data[p][i + 1][1]

\* C6: a get_stats call that repeats the previous call (same item, same instant,
\* no other call in between) returns the same value as that call and leaves the
\* item's window unchanged.
C6_GetStatsIdempotent ==
    [][(hist'.op = "get_stats" /\ hist'.repeat) => (stats' = stats /\ data' = data)]_vars

\* C6 witness: get_stats was repeated on a window that held samples, after a
\* time at which some of its samples had aged out
C6_Witness ==
    /\ hist.op = "get_stats"
    /\ hist.repeat
    /\ stats # None
    /\ now - data[hist.item][1][1] = window_seconds
    /\ Len(data[hist.item]) >= 2

(***************************************************************************)
(* detectors/underpriced.py, detectors/fake_bin.py, detectors/spike.py     *)
(*                                                                         *)
(* A field of a row is None, a string that is empty or not a number, a     *)
(* string that spells a number, or a number; numbers are rationals n/d.    *)
(***************************************************************************)
Num(n, d) == [t |-> "num", n |-> n, d |-> d]
Int2Num(k) == Num(k, 1)
EmptyStr == [t |-> "str", s |-> ""]
NotANumber == [t |-> "str", s |-> "abc"]
NumStr(n, d) == [t |-> "numstr", n |-> n, d |-> d]

\* Rational arithmetic, denominators kept positive
Norm(n, d) == IF d < 0 THEN Num(-n, -d) ELSE Num(n, d)
RSub(x, y) == Num(x.n * y.d - y.n * x.d, x.d * y.d)
RAdd(x, y) == Num(x.n * y.d + y.n * x.d, x.d * y.d)
RDiv(x, y) == Norm(x.n * y.d, x.d * y.n)
RNeg(x) == Num(-x.n, x.d)
RLt(x, y) == x.n * y.d < y.n * x.d
RGt(x, y) == RLt(y, x)
REq(x, y) == x.n * y.d = y.n * x.d
One == Num(1, 1)
Zero == Num(0, 1)

\* int(x): truncation towards zero
Trunc(x) ==
    IF x.n >= 0 THEN Int2Num(x.n \div x.d) ELSE Int2Num(-((-x.n) \div x.d))

\* round(x, 2): to the nearest hundredth, ties to the even one
Round2(x) ==
    LET q == (x.n * 100) \div x.d
        r == (x.n * 100) % x.d
    IN  IF 2 * r < x.d THEN Num(q, 100)
        ELSE IF 2 * r > x.d THEN Num(q + 1, 100)
        ELSE IF q % 2 = 0 THEN Num(q, 100) ELSE Num(q + 1, 100)

\* detectors/*.py: _to_float
det_to_float(value) ==
    IF value = None \/ value = EmptyStr THEN None
    ELSE IF value.t \in {"num", "numstr"} THEN Num(value.n, value.d)
    ELSE None

\* detectors/*.py: _to_int
det_to_int(value) ==
    IF value = None \/ value = EmptyStr THEN None
    ELSE IF value.t \in {"num", "numstr"} THEN Trunc(Num(value.n, value.d))
    ELSE None

\* `not x` for an Optional number: None and zero are falsy
Falsy(x) == x = None \/ x.n = 0

\* detect_underpriced with the z-score gate left out
detect_underpriced_no_gate(r, cfg) ==
    LET price == det_to_int(r.price)
        avg == det_to_float(r.avg_price_24h)
    IN  IF Falsy(price) \/ Falsy(avg) THEN None
        ELSE LET discount == RSub(One, RDiv(price, avg))
             IN  IF RLt(discount, cfg.min_discount) THEN None
                 ELSE [type |-> "UNDERPRICED", discount_pct |-> discount,
                       score |-> None, expected |-> avg]

\* detect_underpriced
detect_underpriced(r, cfg) ==
    LET price == det_to_int(r.price)
        avg == det_to_float(r.avg_price_24h)
        std == det_to_float(r.std_24h)
    IN  IF Falsy(price) \/ Falsy(avg) THEN None
        ELSE LET discount == RSub(One, RDiv(price, avg))
                 gated == ~Falsy(std) /\ RGt(std, Zero)
                 score == RDiv(RSub(price, avg), std)
             IN  IF RLt(discount, cfg.min_discount) THEN None
                 ELSE IF gated /\ RGt(score, RNeg(cfg.zscore_min)) THEN None
                 ELSE [type |-> "UNDERPRICED", discount_pct |-> discount,
                       score |-> IF gated THEN Round2(score) ELSE None,
                       expected |-> avg]

\* fake_bin.py: the width of the band above fake_drop_pct, 0.05
GraceBand == Num(5, 100)

\* detect_fake_bin with the grace band left out
detect_fake_bin_no_band(r, cfg) ==
    LET price == det_to_int(r.price)
        avg == det_to_float(r.avg_price_24h)
    IN  IF Falsy(price) \/ Falsy(avg) THEN None
        ELSE LET drop_pct == RSub(One, RDiv(price, avg))
             IN  IF RLt(drop_pct, cfg.fake_drop_pct) THEN None
                 ELSE [type |-> "FAKE_BIN_SUSPECT", drop_pct |-> drop_pct,
                       expected |-> avg]

\* detect_fake_bin
detect_fake_bin(r, cfg) ==
    LET price == det_to_int(r.price)
        avg == det_to_float(r.avg_price_24h)
        std0 == det_to_float(r.std_24h)
        std == IF Falsy(std0) THEN Zero ELSE std0
    IN  IF Falsy(price) \/ Falsy(avg) THEN None
        ELSE LET drop_pct == RSub(One, RDiv(price, avg))
             IN  IF RLt(drop_pct, cfg.fake_drop_pct) THEN None
                 ELSE IF RGt(std, Zero) /\ RLt(drop_pct, RAdd(cfg.fake_drop_pct, GraceBand))
                      THEN None
                 ELSE [type |-> "FAKE_BIN_SUSPECT", drop_pct |-> drop_pct,
                       expected |-> avg]

\* detect_spike
detect_spike(r, cfg) ==
    LET price == det_to_int(r.price)
        avg == det_to_float(r.avg_price_24h)
    IN  IF Falsy(price) \/ Falsy(avg) THEN None
        ELSE LET spike == RSub(RDiv(price, avg), One)
             IN  IF RLt(spike, cfg.spike_pct) THEN None
                 ELSE [type |-> "SPIKE", spike_pct |-> spike, expected |-> avg]

\* run(): the (det_name, detector) pairs of the detector loop
Detect(det_name, r, cfg) ==
    CASE det_name = "UNDERPRICED" -> detect_underpriced(r, cfg)
      [] det_name = "FAKE_BIN" -> detect_fake_bin(r, cfg)
      [] det_name = "SPIKE" -> detect_spike(r, cfg)

(***************************************************************************)
(* The detectors on their own: each is applied to a row and a threshold    *)
(* configuration drawn from the sets below.                                *)
(***************************************************************************)
NotRun == [t |-> "not run"]

\* Prices as the sources deliver them: whole numbers (the CSV reader keeps the
\* sign), numeric text, or a field that is missing or unparsable
RowPrices ==
    {None, EmptyStr, NotANumber, NumStr(88, 1)}
    \cup {Int2Num(k) : k \in {-140, -5, 0, 54, 55, 60, 88, 100, 120, 140}}
RowAverages ==
    {None, EmptyStr, NotANumber, Int2Num(-100), Int2Num(0), Int2Num(100), Num(201, 2)}
RowStds ==
    {None, EmptyStr, Int2Num(0), Int2Num(5), Int2Num(20), Int2Num(-5)}

Rows == [price : RowPrices, avg_price_24h : RowAverages, std_24h : RowStds]

\* load_config: the defaults of min_discount, zscore_min, fake_drop_pct and
\* spike_pct, and one other value of each
Configs ==
    [min_discount : {Num(12, 100), Num(40, 100)},
     zscore_min : {Num(18, 10), Num(0, 1)},
     fake_drop_pct : {Num(40, 100), Num(10, 100)},
     spike_pct : {Num(20, 100), Num(40, 100)}]

InitDetect ==
    /\ now = StartTime
    /\ row \in Rows
    /\ thresholds \in Configs
    /\ info = [k \in Detectors |-> NotRun]
    /\ CooldownIdle /\ HistoryIdle /\ NormaliserIdle /\ RunIdle /\ WorkersIdle

RunDetector(det_name) ==
    /\ info[det_name] = NotRun
    /\ info' = [info EXCEPT ![det_name] = Detect(det_name, row, thresholds)]
    /\ UNCHANGED <<now, row, thresholds, cooldownVars, historyVars, normaliserVars,
                   runVars, workerVars>>

NextDetect ==
    \/ RunDetector("UNDERPRICED")
    \/ RunDetector("FAKE_BIN")
    \/ RunDetector("SPIKE")

SpecDetect == InitDetect /\ [][NextDetect]_vars

(***************************************************************************)
(* Claims about the detectors (SpecDetect).                                *)
(***************************************************************************)
\* A field that is missing, not a number, or a number that is not positive
Unusable(v) == ~(v.t \in {"num", "numstr"}) \/ v.n <= 0

\* C7: each detector returns no result whenever the row's price or its reference
\* average is missing, non-numeric or non-positive (zero or negative).
C7_NoSignalOnUnusableInput ==
    \A k \in Detectors :
        (info[k] # NotRun /\ (Unusable(row.price) \/ Unusable(row.avg_price_24h)))
            => info[k] = None

\* The std_24h field holds a positive number
StdPositive == row.std_24h.t \in {"num", "numstr"} /\ row.std_24h.n > 0

\* C8: for a price and an average > 0, with discount = 1 - price/average,
\* Underpriced fires exactly when discount >= minDiscount and, if a positive
\* standard deviation is there, (price - average)/stddev <= -zScoreMin; without a
\* positive standard deviation the discount alone decides; a fired result carries
\* discount_pct = 1 - price/average and expected = average.
C8_UnderpricedRule ==
    (info["UNDERPRICED"] # NotRun /\ ~Unusable(row.price) /\ ~Unusable(row.avg_price_24h))
        => LET p == row.price
               a == row.avg_price_24h
               s == row.std_24h
               m == thresholds.min_discount
               z == thresholds.zscore_min
               \* 1 - p/a >= m, with a > 0
               discountMet == (a.n * p.d - p.n * a.d) * m.d >= m.n * a.n * p.d
               \* (p - a)/s <= -z, with s > 0
               zMet == (p.n * a.d - a.n * p.d) * s.d * z.d <= -z.n * s.n * p.d * a.d
               fires == discountMet /\ (StdPositive => zMet)
               got == info["UNDERPRICED"]
           IN  /\ (got # None) = fires
               /\ fires => /\ got.type = "UNDERPRICED"
                            /\ got.discount_pct.n * a.n * p.d
                                  = (a.n * p.d - p.n * a.d) * got.discount_pct.d
                            /\ REq(got.expected, a)

\* C8 witness: Underpriced fired on a row with a positive standard deviation
\* whose z-score passed the gate
C8_Witness ==
    /\ info["UNDERPRICED"] \notin {NotRun, None}
    /\ StdPositive
    /\ thresholds.zscore_min.n > 0

MaxTextLen == 6             \* the longest string drawn from TextAlphabet

Str(chars) == [t |-> "str", s |-> chars]

\* str.replace(old, new) for single characters; new = "" removes
RECURSIVE Replace(_, _, _)
Replace(chars, old, new) ==
    IF chars = <<>> THEN <<>>
    ELSE (IF Head(chars) = old
          THEN (IF new = "" THEN <<>> ELSE <<new>>)
          ELSE <<Head(chars)>>) \o Replace(Tail(chars), old, new)

\* str.count(c)
RECURSIVE Count(_, _)
Count(chars, c) ==
    IF chars = <<>> THEN 0
    ELSE (IF Head(chars) = c THEN 1 ELSE 0) + Count(Tail(chars), c)

\* c in text
Contains(chars, c) == \E i \in 1..Len(chars) : chars[i] = c

Digits == {"0", "1", "2", "3", "4", "5", "6", "7", "8", "9"}

DigitValue(c) ==
    CASE c = "0" -> 0 [] c = "1" -> 1 [] c = "2" -> 2 [] c = "3" -> 3 [] c = "4" -> 4
      [] c = "5" -> 5 [] c = "6" -> 6 [] c = "7" -> 7 [] c = "8" -> 8 [] c = "9" -> 9

RECURSIVE DigitsValue(_)
DigitsValue(chars) ==
    IF chars = <<>> THEN 0
    ELSE DigitsValue(SubSeq(chars, 1, Len(chars) - 1)) * 10 + DigitValue(chars[Len(chars)])

RECURSIVE Pow10(_)
Pow10(k) == IF k = 0 THEN 1 ELSE 10 * Pow10(k - 1)

\* float(text) for a text of digits, periods and commas: a number when the text is
\* digits with at most one period and at least one digit, else ValueError (None)
ParseFloat(chars) ==
    LET digits == Replace(chars, ".", "")
    IN  IF /\ \A i \in 1..Len(chars) : chars[i] \in Digits \cup {"."}
           /\ Count(chars, ".") <= 1
           /\ digits # <<>>
        THEN LET dot == CHOOSE i \in 1..(Len(chars) + 1) :
                            IF Contains(chars, ".") THEN chars[i] = "."
                            ELSE i = Len(chars) + 1
                 decimals == IF Contains(chars, ".") THEN Len(chars) - dot ELSE 0
             IN  Num(DigitsValue(digits), Pow10(decimals))
        ELSE None

\* value.strip(): leading and trailing blanks removed
RECURSIVE Strip(_)
Strip(chars) ==
    IF chars = <<>> THEN <<>>
    ELSE IF Head(chars) = " " THEN Strip(Tail(chars))
    ELSE IF chars[Len(chars)] = " " THEN Strip(SubSeq(chars, 1, Len(chars) - 1))
    ELSE chars

\* text.split(".") of a text with exactly one period
SplitAtPeriod(chars) ==
    LET dot == CHOOSE i \in 1..Len(chars) : chars[i] = "."
    IN  [left |-> SubSeq(chars, 1, dot - 1), right |-> SubSeq(chars, dot + 1, Len(chars))]

\* main._to_float
to_float(value) ==
    IF value = None \/ value = Str(<<>>) THEN None
    ELSE IF value.t = "str"
    THEN LET text0 == Replace(Strip(value.s), " ", "")
             text1 ==
                 IF Contains(text0, ".") /\ Contains(text0, ",")
                 THEN Replace(Replace(text0, ".", ""), ",", ".")
                 ELSE IF Count(text0, ",") = 1 /\ ~Contains(text0, ".")
                 THEN Replace(Replace(text0, ".", ""), ",", ".")
                 ELSE IF Count(text0, ".") > 1 /\ ~Contains(text0, ",")
                 THEN Replace(text0, ".", "")
                 ELSE IF Count(text0, ".") = 1 /\ ~Contains(text0, ",")
                 THEN LET parts == SplitAtPeriod(text0)
                      IN  IF Len(parts.right) = 3 /\ Len(parts.left) >= 1
                          THEN parts.left \o parts.right
                          ELSE text0
                 ELSE text0
         IN  IF text0 = <<>> THEN None
             ELSE ParseFloat(Replace(text1, ",", ""))
    ELSE IF value.t = "num" THEN Num(value.n, value.d)
    ELSE None

(***************************************************************************)
(* The normaliser on its own: applied to a value drawn from TextInputs.    *)
(***************************************************************************)
TextAlphabet == {"1", ",", "."}

RECURSIVE StringsOfLength(_)
StringsOfLength(k) ==
    IF k = 0 THEN {<<>>}
    ELSE {<<c>> \o rest : c \in TextAlphabet, rest \in StringsOfLength(k - 1)}

\* "1.234,56" and "1,234.56"
CommaDecimalExample == <<"1", ".", "2", "3", "4", ",", "5", "6">>
PeriodDecimalExample == <<"1", ",", "2", "3", "4", ".", "5", "6">>

TextInputs ==
    {Str(chars) : chars \in UNION {StringsOfLength(k) : k \in 0..MaxTextLen}}
    \cup {Str(CommaDecimalExample), Str(PeriodDecimalExample),
          Str(<<" ", "1", " ", "2", ",", "5", " ">>), Str(<<"1", ".", "5", "0", "0">>),
          None, Int2Num(1500), [t |-> "list"]}

Pending == [t |-> "pending"]

InitNormalise ==
    /\ now = StartTime
    /\ text \in TextInputs
    /\ parsed = Pending
    /\ CooldownIdle /\ HistoryIdle /\ DetectorIdle /\ RunIdle /\ WorkersIdle

Normalise ==
    /\ parsed = Pending
    /\ parsed' = to_float(text)
    /\ UNCHANGED <<now, text, cooldownVars, historyVars, detectorVars, runVars, workerVars>>

NextNormalise == Normalise

SpecNormalise == InitNormalise /\ [][NextNormalise]_vars

(***************************************************************************)
(* Claims about the normaliser (SpecNormalise).                            *)
(***************************************************************************)
LastIndexOf(chars, c) ==
    CHOOSE i \in 1..Len(chars) : chars[i] = c /\ \A j \in (i + 1)..Len(chars) : chars[j] # c

\* The number a text with both separators spells when the separator that occurs
\* last is the decimal point and the other one groups thousands
LastSeparatorReading(chars) ==
    LET decimal == IF LastIndexOf(chars, ",") > LastIndexOf(chars, ".") THEN "," ELSE "."
        thousands == IF decimal = "," THEN "." ELSE ","
    IN  ParseFloat(Replace(Replace(chars, thousands, ""), decimal, "."))

SameValue(x, y) == IF x = None \/ y = None THEN x = y ELSE REq(x, y)

\* C10: for a string holding both a comma and a period, normalize takes the
\* separator that occurs last as the decimal point and the other as a thousands
\* separator, so "1.234,56" and "1,234.56" both normalize to 1234.56.
C10_LastSeparatorIsDecimal ==
    (parsed # Pending /\ text.t = "str" /\ Contains(text.s, ",") /\ Contains(text.s, "."))
        => /\ SameValue(parsed, LastSeparatorReading(Replace(Strip(text.s), " ", "")))
           /\ text.s \in {CommaDecimalExample, PeriodDecimalExample}
                 => SameValue(parsed, Num(123456, 100))

(***************************************************************************)
(* main.py: run(), the poll loop                                           *)
(*                                                                         *)
(* A snapshot row carries player_id, price, avg_price_24h, std_24h and     *)
(* updated_at; the fields hold whole numbers, None or empty text, as the   *)
(* sources deliver them.                                                   *)
(***************************************************************************)
CfgMinPoints == 2           \* the configured history min_points
MaxSleeps == 1              \* the poll loop sleeps at most this many times

\* Config.poll_interval_secs, one minute here
poll_interval_secs == 60

\* load_config: history_min_points = max(1, int(min_points))
history_min_points == Max(1, CfgMinPoints)

\* load_config: the default thresholds, with notify_discord on or off
RunConfigs ==
    [min_discount : {Num(12, 100)}, zscore_min : {Num(18, 10)},
     fake_drop_pct : {Num(40, 100)}, spike_pct : {Num(20, 100)},
     notify_discord : BOOLEAN]

Snapshot(player_id, price, avg, std, updated_at) ==
    [player_id |-> player_id, price |-> price, avg_price_24h |-> avg,
     std_24h |-> std, updated_at |-> updated_at]

\* Rows the market may list at clock value t.  A scraped row has an average
\* (its own price when the page shows none) and no deviation; a row of the file
\* export may leave either field out, or carry a zero.
ModestRow == Snapshot("p1", Int2Num(80), Int2Num(100), None, None)
CheapRow == Snapshot("p1", Int2Num(50), Int2Num(100), None, None)
BareRow == Snapshot("p1", Int2Num(50), None, EmptyStr, None)
ZeroAvgRow == Snapshot("p1", Int2Num(50), Int2Num(0), Int2Num(5), None)
\* "2 minutes ago"
StaleRow(t) ==
    Snapshot("p2", Int2Num(140), Int2Num(100), None,
             [t |-> "datetime", naive |-> FALSE, wall |-> t - 2 * SecondsPerMinute,
              offset |-> 0])
UnpricedRow == Snapshot("p2", None, Int2Num(100), None, None)

\* What fetch_market may return at clock value t: nothing, one row, or two
Batches(t) ==
    {<<>>} \cup {<<r>> : r \in {ModestRow, CheapRow, BareRow, ZeroAvgRow}}
    \cup {<<CheapRow, StaleRow(t)>>, <<UnpricedRow, BareRow>>}

\* Binary search for the largest k in lo..hi with k * k <= x
IsqrtBetween[x \in Nat, lo \in Nat, hi \in Nat] ==
    IF lo = hi THEN lo
    ELSE LET mid == (lo + hi + 1) \div 2
         IN  IF mid * mid <= x THEN IsqrtBetween[x, mid, hi]
             ELSE IsqrtBetween[x, lo, mid - 1]

Isqrt(x) == IsqrtBetween[x, 0, 46340]

\* The number math.sqrt returned: exact for a rational whose root is
\* rational, else the root cut to a tenth of the denominator
SqrtValue(s) ==
    LET r == s.sqrt_of
        k == Isqrt(r.n)
        m == Isqrt(r.d)
    IN  IF k * k = r.n /\ m * m = r.d THEN Num(k, m)
        ELSE Num(Isqrt(100 * r.n * r.d), 10 * r.d)

\* row.get("avg_price_24h") in (None, "", 0)
AvgMissing(v) == v = None \/ v = EmptyStr \/ (v.t = "num" /\ v.n = 0)

\* row.get("std_24h") in (None, "")
StdMissing(v) == v = None \/ v = EmptyStr

\* run(): the backfill with the history_min_points gate left out
backfill_any_count(r, st, min_points) ==
    IF st # None
    THEN LET r1 == IF AvgMissing(r.avg_price_24h)
                   THEN [r EXCEPT !.avg_price_24h = Num(st.average.n, st.average.d)]
                   ELSE r
         IN  IF StdMissing(r1.std_24h)
             THEN [r1 EXCEPT !.std_24h = SqrtValue(st.stddev)]
             ELSE r1
    ELSE r

\* run(): the backfill of a row from the stats get_stats returned
backfill(r, st, min_points) ==
    IF st # None /\ st.count >= min_points
    THEN LET r1 == IF AvgMissing(r.avg_price_24h)
                   THEN [r EXCEPT !.avg_price_24h = Num(st.average.n, st.average.d)]
                   ELSE r
         IN  IF StdMissing(r1.std_24h)
             THEN [r1 EXCEPT !.std_24h = SqrtValue(st.stddev)]
             ELSE r1
    ELSE r

\* The (det_name, info) pairs of the detector loop, in the order of the tuple
DetectorOrder == <<"UNDERPRICED", "FAKE_BIN", "SPIKE">>

NoChecks == [k \in Detectors |-> "not reached"]
NoInfo == [k \in Detectors |-> NotRun]

\* str(row.get("player_id") or row.get("name"))
PidOf(r) == r.player_id

\* The detector loop leaving at the first alert it sends (`break` after
\* maybe_notify)
detector_loop_next_break(d, outcome) ==
    IF outcome = "notified" THEN 0
    ELSE IF d < Len(DetectorOrder) THEN d + 1 ELSE 0

\* The detector loop's step to its next pair, whatever became of this one (no
\* info, suppressed, or notified); 0 when the pairs are used up
detector_loop_next(d, outcome) ==
    IF d < Len(DetectorOrder) THEN d + 1 ELSE 0

\* The except clauses swallowing nothing: any exception ends the loop
handle_reraise(exc) == "done"

\* The except clauses of the loop: the statement control continues at
handle(exc) ==
    IF exc = "KeyboardInterrupt" THEN "done" ELSE "sleep"

\* maybe_notify undoing the firing when the webhook reports failure
maybe_notify_rollback(las, key, outcome) ==
    IF outcome = "failed"
    THEN [k \in (DOMAIN las) \ {key} |-> las[k]]
    ELSE las

\* maybe_notify: what it leaves of AlertState.last_alerts
maybe_notify(las, key, outcome) == las

\* The outcomes of maybe_notify under cfg
NotifyOutcomes(cfg) ==
    IF cfg.notify_discord THEN {"sent", "failed"} ELSE {"logged"}

\* cooldown = cfg.cooldown_minutes * 60, for one minute and for the longest
RunCooldowns == {SecondsPerMinute, MaxCooldownMinutes * SecondsPerMinute}

RunInit ==
    /\ pc = "fetch"
    /\ fetched = <<>>
    /\ idx = 0
    /\ det = 0
    /\ checked = NoChecks
    /\ outbox = EmptyDict
    /\ exit_by = None
    /\ failure = None
    /\ row = None
    /\ thresholds \in RunConfigs
    /\ info = NoInfo
    /\ cooldown \in RunCooldowns
    /\ last_alerts = EmptyDict
    /\ data = EmptyDict
    /\ stats = NoStats

\* The variables of the stand-alone components that run() does not use
RunUnused == <<alert, fired, quote, late, hist, text, parsed, workers>>

\* rows = scraper.fetch_market(scraper_cfg); `if not rows` sleeps and continues
Fetch ==
    /\ pc = "fetch"
    /\ \E batch \in Batches(now) :
         /\ fetched' = batch
         /\ IF batch = <<>>
            THEN pc' = "sleep" /\ idx' = 0
            ELSE pc' = "row" /\ idx' = 1
    /\ failure' = None
    /\ UNCHANGED <<now, cooldown, last_alerts, data, stats, row, thresholds, info, det,
                   checked, outbox, exit_by, RunUnused>>

\* The end of one pass of `for row in rows`
AfterRow ==
    IF idx < Len(fetched)
    THEN pc' = "row" /\ idx' = idx + 1
    ELSE pc' = "sleep" /\ idx' = idx

\* One row: normalise the price, skip the row without one, else add it to the
\* history, read the stats and backfill the row
StepRow ==
    /\ pc = "row"
    /\ LET r == fetched[idx]
           price_value == to_float(r.price)
       IN  IF price_value = None
           THEN AfterRow /\ UNCHANGED <<data, stats, row>>
           ELSE \E added \in {add(data, PidOf(r), price_value.n \div price_value.d,
                                   r.updated_at, now)} :
                  \E got \in {get_stats(added, PidOf(r), now)} :
                    /\ data' = got.data
                    /\ stats' = got.ret
                    /\ row' = backfill(r, got.ret, history_min_points)
                    /\ pc' = "detect"
                    /\ idx' = idx
    /\ UNCHANGED <<now, cooldown, last_alerts, thresholds, info, fetched, det, checked,
                   outbox, exit_by, failure, RunUnused>>

\* The tuple of the detector loop is built: all three detectors run on the row
StepDetect ==
    /\ pc = "detect"
    /\ info' = [k \in Detectors |-> Detect(k, row, thresholds)]
    /\ checked' = NoChecks
    /\ det' = 1
    /\ pc' = "alert"
    /\ UNCHANGED <<now, cooldown, last_alerts, data, stats, row, thresholds, fetched, idx,
                   outbox, exit_by, failure, RunUnused>>

\* The detector loop moves on after `outcome` for its current pair
AfterDetector(outcome) ==
    LET d == detector_loop_next(det, outcome)
    IN  IF d # 0
        THEN pc' = "alert" /\ det' = d /\ idx' = idx
        ELSE det' = 0 /\ AfterRow

\* One pass of the detector loop up to maybe_notify: `if not info: continue`,
\* `if not state.can_alert(...): continue`
StepAlert ==
    /\ pc = "alert"
    /\ LET k == DetectorOrder[det]
           r == can_alert(last_alerts, PidOf(row), k, cooldown, now)
       IN  IF info[k] = None
           THEN /\ checked' = [checked EXCEPT ![k] = "no result"]
                /\ AfterDetector("no result")
                /\ UNCHANGED last_alerts
           ELSE /\ last_alerts' = r.last_alerts
                /\ IF r.ret
                   THEN /\ checked' = [checked EXCEPT ![k] = "permitted"]
                        /\ pc' = "notify"
                        /\ UNCHANGED <<det, idx>>
                   ELSE /\ checked' = [checked EXCEPT ![k] = "suppressed"]
                        /\ AfterDetector("suppressed")
    /\ UNCHANGED <<now, cooldown, data, stats, row, thresholds, info, fetched, outbox,
                   exit_by, failure, RunUnused>>

\* content = format_alert(row, info); maybe_notify(cfg, content)
StepNotify ==
    /\ pc = "notify"
    /\ LET key == <<PidOf(row), DetectorOrder[det]>>
       IN  \E outcome \in NotifyOutcomes(thresholds) :
             /\ outbox' = Put(outbox, key, [at |-> now, outcome |-> outcome])
             /\ last_alerts' = maybe_notify(last_alerts, key, outcome)
    /\ checked' = [checked EXCEPT ![DetectorOrder[det]] = "notified"]
    /\ AfterDetector("notified")
    /\ UNCHANGED <<now, cooldown, data, stats, row, thresholds, info, fetched, exit_by,
                   failure, RunUnused>>

\* time.sleep(cfg.poll_interval_secs), then the next pass of `while True`
Sleep ==
    /\ pc = "sleep"
    /\ now + poll_interval_secs <= StartTime + MaxSleeps * poll_interval_secs
    /\ now' = now + poll_interval_secs
    /\ pc' = "fetch"
    /\ fetched' = <<>>
    /\ idx' = 0
    /\ det' = 0
    /\ row' = None
    /\ info' = NoInfo
    /\ stats' = NoStats
    /\ checked' = NoChecks
    /\ UNCHANGED <<cooldown, last_alerts, data, thresholds, outbox, exit_by, failure,
                   RunUnused>>

\* The statements inside `try`
InCycle == {"fetch", "row", "detect", "alert", "notify"}

\* An Exception is raised by the statement the loop is at
Raise ==
    /\ pc \in InCycle
    /\ failure' = [t |-> "raised", at |-> pc]
    /\ pc' = handle("Exception")
    /\ exit_by' = IF handle("Exception") = "done"
                  THEN [exc |-> "Exception", at |-> pc] ELSE exit_by
    /\ UNCHANGED <<now, cooldown, last_alerts, data, stats, row, thresholds, info, fetched,
                   idx, det, checked, outbox, RunUnused>>

\* Ctrl-C: KeyboardInterrupt is raised in the main thread wherever it is; inside
\* `try` the except clause breaks out of the loop, in the sleep after it the
\* exception leaves run()
Interrupt ==
    /\ pc \in InCycle \cup {"sleep"}
    /\ exit_by' = [exc |-> "KeyboardInterrupt", at |-> pc]
    /\ pc' = IF pc \in InCycle THEN handle("KeyboardInterrupt") ELSE "done"
    /\ UNCHANGED <<now, cooldown, last_alerts, data, stats, row, thresholds, info, fetched,
                   idx, det, checked, outbox, failure, RunUnused>>

InitRun ==
    /\ now = StartTime
    /\ RunInit
    /\ alert = NoAlert
    /\ fired = [k \in TrackedKeys |-> [permitted |-> {}, suppressed |-> FALSE]]
    /\ quote = 100 /\ late = 0 /\ hist = NoCall
    /\ NormaliserIdle /\ WorkersIdle

\* The statements of the loop
LoopStep ==
    \/ Fetch
    \/ StepRow
    \/ StepDetect
    \/ StepAlert
    \/ StepNotify
    \/ Sleep
    \/ Raise

NextRun ==
    \/ LoopStep
    \/ Interrupt

SpecRun == InitRun /\ [][NextRun]_vars

\* The interpreter keeps running the loop: the statement the loop is at is
\* taken, unless it raises or an interrupt strikes first; fetch_market, the
\* webhook post and the sleep all return after a bounded time
SpecRunLive ==
    /\ SpecRun
    /\ WF_vars(Fetch) /\ WF_vars(StepRow) /\ WF_vars(StepDetect)
    /\ WF_vars(StepAlert) /\ WF_vars(StepNotify) /\ WF_vars(Sleep)

(***************************************************************************)
(* Claims about the poll loop (SpecRun, SpecRunLive).                      *)
(***************************************************************************)
\* A field the snapshot does not supply: None or empty text
FieldAbsent(v) == v = None \/ v = EmptyStr

\* The stats of the samples the store holds for item p now, None without any
StoreStats(p) ==
    IF p \in DOMAIN data /\ data[p] # <<>> THEN PriceStats(data[p]) ELSE None

EnoughSamples(st) == st # None /\ st.count >= history_min_points

\* C11 (as stated): when the detectors are about to run on a row, its average
\* (resp. standard deviation) differs from the snapshot's only if the snapshot's
\* field is absent and the item's window holds at least history_min_points
\* samples, and it is then the store's current average (resp. deviation); a
\* supplied value is never overwritten, and below the minimum an absent field
\* stays absent.
C11_BackfillOnlyWhenAbsent ==
    pc = "detect" =>
        LET up == fetched[idx]
            st == StoreStats(PidOf(up))
        IN  /\ row.avg_price_24h # up.avg_price_24h
                  => /\ FieldAbsent(up.avg_price_24h)
                     /\ EnoughSamples(st)
                     /\ row.avg_price_24h = Num(st.average.n, st.average.d)
            /\ row.std_24h # up.std_24h
                  => /\ FieldAbsent(up.std_24h)
                     /\ EnoughSamples(st)
                     /\ row.std_24h = SqrtValue(st.stddev)

\* C11 (amended): as C11, with an average of zero counted as absent: the
\* average is replaced only if it is None, empty or zero, the deviation only if
\* it is None or empty, and both only with at least history_min_points samples.
C11_BackfillOnlyWhenAbsentOrZero ==
    pc = "detect" =>
        LET up == fetched[idx]
            st == StoreStats(PidOf(up))
        IN  /\ row.avg_price_24h # up.avg_price_24h
                  => /\ FieldAbsent(up.avg_price_24h) \/ up.avg_price_24h = Int2Num(0)
                     /\ EnoughSamples(st)
                     /\ row.avg_price_24h = Num(st.average.n, st.average.d)
            /\ row.std_24h # up.std_24h
                  => /\ FieldAbsent(up.std_24h)
                     /\ EnoughSamples(st)
                     /\ row.std_24h = SqrtValue(st.stddev)
            /\ ~EnoughSamples(st) => row = up

\* C11 witness: a snapshot without average and deviation was given both from a
\* window of two different prices
C11_Witness ==
    /\ pc = "detect"
    /\ fetched[idx].avg_price_24h = None
    /\ row.avg_price_24h = Num(130, 2)
    /\ row.std_24h = Num(30, 2)

\* The key of the pair the detector loop is at
CurrentKey == <<PidOf(row), DetectorOrder[det]>>

\* The loop over the three pairs has run to its end for the last row detected on
DetectorLoopDone == pc \in {"row", "sleep"} /\ det = 0 /\ info # NoInfo

\* C12: for every row with a numeric price all three detectors are evaluated, and
\* when the detector loop ends every detector that fired has been put to the
\* cooldown check (suppressed or notified) and no other; each check is decided by
\* the recorded time of its own (item, kind) key alone, whatever became of the
\* other kinds, and a step changes the recorded time of no key but the one it
\* checks.
C12_DetectorsIndependent ==
    /\ [](DetectorLoopDone =>
            \A k \in Detectors :
                /\ info[k] # NotRun
                /\ info[k] = None => checked[k] = "no result"
                /\ info[k] # None => checked[k] \in {"suppressed", "notified"})
    /\ [][/\ (pc = "alert" /\ checked'[DetectorOrder[det]] \in {"permitted", "suppressed"})
             => (checked'[DetectorOrder[det]] = "permitted")
                  = (CurrentKey \notin DOMAIN last_alerts
                       \/ now - last_alerts[CurrentKey] >= cooldown)
          /\ \A key \in (DOMAIN last_alerts) \cup (DOMAIN last_alerts') :
                \/ pc = "alert" /\ key = CurrentKey
                \/ /\ key \in DOMAIN last_alerts
                   /\ key \in DOMAIN last_alerts'
                   /\ last_alerts'[key] = last_alerts[key]]_vars

\* C12 witness: for one row, Underpriced was suppressed by its cooldown and
\* Fake-Listing-Suspect was alerted
C12_Witness ==
    /\ DetectorLoopDone
    /\ checked["UNDERPRICED"] = "suppressed"
    /\ checked["FAKE_BIN"] = "notified"

\* The clock values at which a cycle starts that the loop can sleep after
SleepTimes == {StartTime + k * poll_interval_secs : k \in 0..(MaxSleeps - 1)}

\* C13: an Exception raised by any statement of a cycle (acquisition, history
\* update, detection, cooldown check, notification) takes the loop to its sleep,
\* never out of it; the loop ends by an external interrupt only; and from any
\* point of a cycle, failed or not, the loop either is interrupted or starts
\* the next cycle one poll interval later.
C13_LoopSurvivesFailure ==
    /\ [][failure' # failure /\ failure' # None => pc \in InCycle /\ pc' = "sleep"]_vars
    /\ [](pc = "done" => exit_by # None /\ exit_by.exc = "KeyboardInterrupt")
    /\ \A t \in SleepTimes :
          /\ (now = t /\ failure # None)
                ~> (pc = "done" \/ (pc = "fetch" /\ now = t + poll_interval_secs))
          /\ (now = t)
                ~> (pc = "done" \/ (pc = "fetch" /\ now = t + poll_interval_secs))

\* C13 witness: a cycle is about to start after the one before it failed in the
\* notification
C13_Witness ==
    /\ pc = "fetch"
    /\ now > StartTime
    /\ failure # None
    /\ failure.at = "notify"

\* The rows of this cycle that have a numeric price
NumericRows == {i \in 1..Len(fetched) : to_float(fetched[i].price) # None}

\* Those of them written to the Price History Store when the loop ended
WrittenRows ==
    {i \in NumericRows : i < idx \/ (i = idx /\ exit_by.at \in {"detect", "alert", "notify"})}

\* Only some of the cycle's snapshots were written to the store
PartialHistory == WrittenRows # {} /\ WrittenRows # NumericRows

\* Only some of the row's fired detections were recorded and notified: one was
\* recorded and not notified, or one was dealt with and another not reached
PartialAlerts ==
    /\ exit_by.at \in {"alert", "notify"}
    /\ \/ \E k \in Detectors : info[k] # None /\ checked[k] = "permitted"
       \/ /\ \E k \in Detectors : info[k] # None /\ checked[k] \in {"suppressed", "notified"}
          /\ \E k \in Detectors : info[k] # None /\ checked[k] = "not reached"

\* C14: when an external interrupt has ended the loop, no cycle is left partially
\* applied: the cycle it struck has written none or all of its snapshots to the
\* Price History Store, and has recorded and notified none or all of the fired
\* detections of the row it was at.
C14_InterruptLeavesNoPartialCycle ==
    (pc = "done" /\ exit_by.exc = "KeyboardInterrupt")
        => ~PartialHistory /\ ~PartialAlerts

(***************************************************************************)
(* storage/state.py: can_alert called by several threads on one AlertState *)
(*                                                                         *)
(* can_alert reads the clock and the recorded time (lines 16-18), then     *)
(* compares and writes (lines 19-22); another thread may run in between.   *)
(* In mode "single" the calls follow one another, as in run().             *)
(***************************************************************************)
MaxCalls == 1               \* each worker calls can_alert at most this many times

Workers == {"w1", "w2"}
WorkerKeys == {<<"p1", "UNDERPRICED">>, <<"p1", "SPIKE">>}

\* ts = self.last_alerts.get(key)
recorded(las, key) == IF key \in DOMAIN las THEN [t |-> "ts", v |-> las[key]] ELSE None

\* The test of line 19 with the comparison turned round
cooldown_running_flipped(ts, t, cooldown_seconds) ==
    ts # None /\ ts.v # 0 /\ (t - ts.v) > cooldown_seconds

\* if ts and (now - ts) < cooldown_seconds
cooldown_running(ts, t, cooldown_seconds) ==
    ts # None /\ ts.v # 0 /\ (t - ts.v) < cooldown_seconds

WorkerIdle == [pc |-> "idle", calls |-> 0]

WorkersInit ==
    /\ workers \in [mode : {"single", "threads"},
                    th : {[w \in Workers |-> WorkerIdle]},
                    log : {<<>>}]
    /\ cooldown \in {m * SecondsPerMinute : m \in 0..MaxCooldownMinutes}
    /\ last_alerts = EmptyDict

\* A worker enters can_alert: lines 16-18
WorkerCall(w, key) ==
    /\ workers.th[w].pc \in {"idle", "returned"}
    /\ workers.th[w].calls < MaxCalls
    /\ workers.mode = "single" => \A v \in Workers : workers.th[v].pc # "read"
    /\ workers' = [workers EXCEPT !.th[w] =
                      [pc |-> "read", calls |-> @.calls + 1, key |-> key, t |-> now,
                       ts |-> recorded(last_alerts, key), stale |-> FALSE]]
    /\ UNCHANGED <<now, cooldown, last_alerts>>

\* The worker compares and, unless the cooldown runs, writes: lines 19-22.
\* A write makes stale what another worker has read for the same key.
WorkerReturn(w) ==
    /\ workers.th[w].pc = "read"
    /\ LET me == workers.th[w]
           ret == ~cooldown_running(me.ts, me.t, cooldown)
       IN  /\ last_alerts' = IF ret THEN Put(last_alerts, me.key, me.t) ELSE last_alerts
           /\ workers' =
                 [workers EXCEPT
                    !.th = [v \in Workers |->
                              IF v = w THEN [pc |-> "returned", calls |-> me.calls]
                              ELSE IF ret /\ @[v].pc = "read" /\ @[v].key = me.key
                                   THEN [@[v] EXCEPT !.stale = TRUE]
                                   ELSE @[v]],
                    !.log = Append(@, [worker |-> w, key |-> me.key, t |-> me.t,
                                       ret |-> ret, stale |-> me.stale])]
    /\ UNCHANGED <<now, cooldown>>

WorkersTick ==
    /\ Tick
    /\ UNCHANGED <<cooldown, last_alerts, workers>>

WorkersUnused ==
    <<alert, fired, historyVars, detectorVars, normaliserVars, runVars>>

InitWorkers ==
    /\ now = StartTime
    /\ WorkersInit
    /\ alert = NoAlert
    /\ fired = [k \in TrackedKeys |-> [permitted |-> {}, suppressed |-> FALSE]]
    /\ HistoryIdle /\ DetectorIdle /\ NormaliserIdle /\ RunIdle

NextWorkers ==
    \/ WorkersTick /\ UNCHANGED WorkersUnused
    \/ \E w \in Workers, key \in WorkerKeys : WorkerCall(w, key) /\ UNCHANGED WorkersUnused
    \/ \E w \in Workers : WorkerReturn(w) /\ UNCHANGED WorkersUnused

SpecWorkers == InitWorkers /\ [][NextWorkers]_vars

(***************************************************************************)
(* Claims about concurrent can_alert calls (SpecWorkers).                  *)
(***************************************************************************)
\* Two calls for one key returned true with clock readings less than the
\* cooldown apart
DoublePermit ==
    \E i, j \in 1..Len(workers.log) :
        /\ i < j
        /\ workers.log[i].ret /\ workers.log[j].ret
        /\ workers.log[i].key = workers.log[j].key
        /\ workers.log[j].t - workers.log[i].t < cooldown
        /\ workers.log[i].t - workers.log[j].t < cooldown

\* C15: when calls follow one another (the single-threaded orchestrator), no two
\* calls for one key return true less than cooldownSeconds apart; when two
\* workers share the tracker this can happen, and only through a call whose read
\* of the recorded time was overtaken by another call's write to the same key
\* before its own compare-and-write.
C15_CheckThenActRace ==
    /\ workers.mode = "single" => ~DoublePermit
    /\ DoublePermit => \E i \in 1..Len(workers.log) :
                          workers.log[i].ret /\ workers.log[i].stale

\* C15 witness: two workers checked one key whose cooldown was not running,
\* both read before either wrote, and both returned true at the same instant
C15_Witness ==
    /\ workers.mode = "threads"
    /\ cooldown > 0
    /\ DoublePermit
    /\ Len(workers.log) = 2
    /\ workers.log[1].worker # workers.log[2].worker
    /\ workers.log[2].stale

(***************************************************************************)
(* Claims about cooldown and delivery in the poll loop (SpecRun).          *)
(***************************************************************************)
\* C16: the notifier is called for a key only by the pass of the detector loop
\* in which can_alert has just returned true for that key and recorded the
\* current time; can_alert is called (and a time recorded) only for a detector
\* that returned a result; the notifier leaves the recorded times alone whatever
\* its outcome, so after a failed delivery the key's recorded time is still
\* there and every check of the key before the cooldown has passed is suppressed.
C16_CooldownConsumedBeforeDelivery ==
    /\ [][outbox' # outbox =>
             /\ pc = "notify"
             /\ checked[DetectorOrder[det]] = "permitted"
             /\ CurrentKey \in DOMAIN last_alerts /\ last_alerts[CurrentKey] = now
             /\ outbox' = Put(outbox, CurrentKey, outbox'[CurrentKey])
             /\ outbox'[CurrentKey].at = now]_vars
    /\ [][last_alerts' # last_alerts => pc = "alert" /\ info[DetectorOrder[det]] # None]_vars
    /\ [](\A k \in Detectors :
             checked[k] \in {"permitted", "suppressed", "notified"}
                => info[k] \notin {None, NotRun})
    /\ [](\A key \in DOMAIN outbox :
             key \in DOMAIN last_alerts /\ last_alerts[key] >= outbox[key].at)
    /\ [][(/\ pc = "alert"
           /\ checked'[DetectorOrder[det]] \in {"permitted", "suppressed"}
           /\ CurrentKey \in DOMAIN outbox
           /\ outbox[CurrentKey].outcome = "failed"
           /\ now - outbox[CurrentKey].at < cooldown)
             => checked'[DetectorOrder[det]] = "suppressed"]_vars

\* C16 witness: a firing whose delivery failed in an earlier cycle keeps the
\* same detection suppressed in this one
C16_Witness ==
    /\ pc \in {"alert", "row", "sleep"}
    /\ row # None
    /\ \E k \in Detectors :
          /\ checked[k] = "suppressed"
          /\ <<PidOf(row), k>> \in DOMAIN outbox
          /\ outbox[<<PidOf(row), k>>].outcome = "failed"
          /\ outbox[<<PidOf(row), k>>].at < now
          /\ last_alerts[<<PidOf(row), k>>] = outbox[<<PidOf(row), k>>].at
====
